---- MODULE Spec2Model ----
(***************************************************************************)
(* SSDL SatPass Notification: the pass-summary parser of                   *)
(* satphotometry_light/heavens_above.py and the notification script        *)
(* SSDL-SatPass-Notification.py as state machines.                         *)
(*                                                                         *)
(* Representation.  An instant is an integer number of seconds since      *)
(* 00:00:00 UTC of a reference day (day 0), so an ISO string              *)
(* "YYYY-MM-DDTHH:MM:SS" is day * SecPerDay + time-of-day and the order   *)
(* of the strings is the order of the integers.  The mjd query value is   *)
(* held in the same unit (days since day 0, times SecPerDay).             *)
(***************************************************************************)
EXTENDS Integers, Sequences, FiniteSets, TLC

VARIABLES
    \* ---- parse_summary2table (heavens_above.py:110-279)
    page,        \* query_result: the <tr> rows of the page, in page order
    tr_idx,      \* position of the "for tr_html in tr_list" loop
    cols,        \* the output canvas: the records appended so far
    parse_pc,    \* "loop" | "done" | "raised"
    \* ---- SSDL-SatPass-Notification.py, state that outlives a run
    runs,        \* number of runs started so far
    today,       \* Time.now().isot[0:10], the UTC date of the current run
    cache_dir,   \* whether tmp/heavens-above/meteoblue/ exists
    cache,       \* date -> the pickled forecast table of that date, or NoFile
    calls,       \* date -> forecast requests sent by runs without the force switch
    \* ---- SSDL-SatPass-Notification.py, state of one run
    pc,          \* the statement the run is at
    env,         \* the parameters read from the environment, lines 71-83
    sat_idx,     \* position of the "for norad_id in norad_ids" loop
    satname,     \* name given by the TLE of the satellite being fetched
    pass_table,
    weather_table,
    good_pass_table,   \* the selection the calendar file is written from
    csv,         \* output/heavens-above/SatPass.csv as written by this run
    ics,         \* output/heavens-above/SatPass.ics as written by this run
    lines,       \* the notification being composed
    printed,     \* whether the preview has been printed
    net,         \* the network requests of this run, in order
    error,       \* the exception that ended the run, or "none"
    \* ---- _fold_ics_line (SSDL-SatPass-Notification.py:360-368)
    fold_arg,    \* the line the function was called with
    line,        \* the local variable line: what is left to fold
    out,         \* the segments cut so far
    fold_ret,    \* the returned string
    fold_pc      \* "entry" | "while" | "done"

parse_vars == <<page, tr_idx, cols, parse_pc>>
disk_vars == <<runs, today, cache_dir, cache, calls>>
run_vars == <<pc, env, sat_idx, satname, pass_table, weather_table, good_pass_table,
              csv, ics, lines, printed, net, error>>

fold_vars == <<fold_arg, line, out, fold_ret, fold_pc>>

vars == <<page, tr_idx, cols, parse_pc, runs, today, cache_dir, cache, calls,
          pc, env, sat_idx, satname, pass_table, weather_table, good_pass_table,
          csv, ics, lines, printed, net, error,
          fold_arg, line, out, fold_ret, fold_pc>>

----------------------------------------------------------------------------
(* Bounds of the model *)

MaxRows == 2          \* rows of one pass-summary page
MaxRuns == 2          \* runs of the script, one after the other

----------------------------------------------------------------------------
(* Time arithmetic *)

SecPerDay == 24 * 3600

DayOf(t) == t \div SecPerDay          \* isot[:10] of an instant
TodOf(t) == t % SecPerDay             \* isot[11:19] of an instant

\* isot[:11] + "HH:MM:SS": the calendar date of one instant with another
\* time-of-day (heavens_above.py:231, 234, 236)
DateWithTod(t, tod) == DayOf(t) * SecPerDay + tod

----------------------------------------------------------------------------
(* The page: rows as the regular expressions of the parser see them *)

MinCells == 12

\* the day the modelled passes begin on: the day after the last run
BaseDay == MaxRuns + 1

\* times of day at which a pass may begin: 00:10:00, 12:00:00, 23:50:00,
\* 23:59:00
StartTods == {600, 43200, 85800, 86340}
\* seconds from the start to the peak, and from the peak to the end
GapsToPeak == {45, 1200}
GapsToEnd  == {45, 300}

NaN == -1                             \* float("nan") of the mjd column
NoSatid == -1

Row(clickable, ncells, mag, st, mx, en, max_alt, pass_type, link, satid, mjd) ==
    [clickable |-> clickable, ncells |-> ncells, mag |-> mag,
     start_time |-> st, start_alt |-> 10, start_az |-> "NW",
     max_time |-> mx, max_alt |-> max_alt, max_az |-> "NE",
     end_time |-> en, end_alt |-> 10, end_az |-> "SE",
     pass_type |-> pass_type, link |-> link, satid |-> satid, mjd |-> mjd]

NumMag(tenths) == [numeric |-> TRUE, tenths |-> tenths]
NoMag == [numeric |-> FALSE, tenths |-> 0]

\* A well-formed row of a pass that begins at instant s, peaks g1 seconds
\* later and ends g2 seconds after the peak: the three cells hold the
\* times of day, the link holds the peak as mjd.
PassRow(satid, s, g1, g2, max_alt, pass_type) ==
    Row(TRUE, MinCells, NumMag(-15), TodOf(s), TodOf(s + g1), TodOf(s + g1 + g2),
        max_alt, pass_type, "href", satid, s + g1)

TimeRows ==
    { PassRow(25544, BaseDay * SecPerDay + s, g1, g2, 45, "visible") :
        s \in StartTods, g1 \in GapsToPeak, g2 \in GapsToEnd }

\* Rows that differ in shape: no clickable marker, too few cells, a
\* non-numeric magnitude cell, a script-driven link, no link at all, a pass
\* that is not visible.
ShapeRows ==
    LET t == BaseDay * SecPerDay + 43200
        good == PassRow(25544, t, 45, 45, 45, "visible")
    IN  { [good EXCEPT !.clickable = FALSE],
          [good EXCEPT !.ncells = MinCells - 1],
          [good EXCEPT !.mag = NoMag],
          [good EXCEPT !.link = "onclick"],
          [good EXCEPT !.link = "none", !.satid = NoSatid, !.mjd = NaN],
          [good EXCEPT !.pass_type = "daylight"] }

Rows == TimeRows \cup ShapeRows

RECURSIVE SeqsUpTo(_, _)
SeqsUpTo(S, n) ==
    IF n = 0 THEN { <<>> }
    ELSE LET shorter == SeqsUpTo(S, n - 1)
         IN  shorter \cup { Append(q, x) : q \in { r \in shorter : Len(r) = n - 1 }, x \in S }

Pages == SeqsUpTo(Rows, MaxRows)

----------------------------------------------------------------------------
(* Configuration of the script *)

\* input/satlist/BRIGHT_LEO.py: the first two entries of norad_ids
norad_ids == <<20580, 25544>>

\* the name the TLE of a catalog number carries (tle_dict[...]["name"])
SatName(norad_id) == IF norad_id = 20580 THEN "HST" ELSE "ISS (ZARYA)"

\* alphabetical order of the satellite names (the sort key of group_by)
NameRank(name) == IF name = "HST" THEN 1 ELSE 2

None == "None"

DefaultMinAlt == 30
DefaultMinDuration == 30

Empty == [x \in {} |-> x]

\* os.getenv(name, default)
Getenv(environ, name, default) ==
    IF name \in DOMAIN environ THEN environ[name] ELSE default

\* lines 71-83
ReadEnv(environ) ==
    [min_alt |-> Getenv(environ, "MIN_ALT", DefaultMinAlt),
     min_duration |-> Getenv(environ, "MIN_DURATION", DefaultMinDuration),
     time_window |-> Getenv(environ, "TIME_WINDOW", None),
     send_notice |-> (Getenv(environ, "SEND_NOTICE", "NOT") = "SEND"),
     slack_api_token |-> Getenv(environ, "SLACK_TOKEN", None),
     channel_id |-> Getenv(environ, "SLACK_CHANNEL", None),
     notify_type |-> Getenv(environ, "NOTIFY_TYPE", "bydate"),
     meteoblue_api_key |-> Getenv(environ, "METEOBLUE_API_KEY", None),
     meteoblue_apikey |-> Getenv(environ, "METEOBLUE_APIKEY", None),
     force_meteoblue |-> (Getenv(environ, "METEOBLUE_UPDATE", "NOT") = "FORCE")]

Credentials ==
    ("SLACK_TOKEN" :> "xoxb") @@ ("SLACK_CHANNEL" :> "C01") @@ ("METEOBLUE_API_KEY" :> "key")

NotifyTypes == {Empty, "NOTIFY_TYPE" :> "bysat"}

\* environments that vary the thresholds of the filter
ThresholdEnvirons ==
    { a @@ b @@ d @@ Credentials :
        a \in {Empty, "MIN_ALT" :> 45},
        b \in {Empty, "MIN_DURATION" :> 90},
        d \in NotifyTypes }

\* environments that vary the requested time window
WindowEnvirons ==
    { c @@ d @@ Credentials :
        c \in {Empty, "TIME_WINDOW" :> "morning", "TIME_WINDOW" :> "evening",
               "TIME_WINDOW" :> "all"},
        d \in NotifyTypes }

\* environments that vary the switches and the forecast key
SwitchEnvirons ==
    { a @@ b @@ c @@ ("SLACK_TOKEN" :> "xoxb") @@ ("SLACK_CHANNEL" :> "C01") :
        a \in {Empty, "SEND_NOTICE" :> "SEND"},
        b \in {Empty, "METEOBLUE_UPDATE" :> "FORCE"},
        c \in {Empty, "METEOBLUE_API_KEY" :> "key", "METEOBLUE_APIKEY" :> "key"} }

\* environments that vary the credentials of the chat service
SlackEnvirons ==
    { a @@ d @@ ("METEOBLUE_API_KEY" :> "key") :
        a \in {Empty, "SEND_NOTICE" :> "SEND"},
        d \in {Empty, "SLACK_TOKEN" :> "xoxb", "SLACK_CHANNEL" :> "C01"} }

Environs == ThresholdEnvirons \cup WindowEnvirons \cup SwitchEnvirons \cup SlackEnvirons

\* offset of the observing site's time zone from UTC (lst_h, lst_m)
LstOffset == 9 * 3600

\* obs_obj.noon(t, which="previous"): the last local solar noon at or before t
PreviousNoon(t) ==
    LET noon_tod == (12 * 3600 - LstOffset) % SecPerDay
    IN  IF TodOf(t) >= noon_tod THEN DateWithTod(t, noon_tod)
        ELSE DateWithTod(t, noon_tod) - SecPerDay

\* obs_obj.tonight(obs_noon, horizon=0): <<sunset, sunrise>> of the night
\* that follows obs_noon
Tonight(obs_noon) == <<obs_noon + 6 * 3600, obs_noon + 18 * 3600>>

Abs(x) == IF x < 0 THEN -x ELSE x

----------------------------------------------------------------------------
(* Pages and forecasts the services may answer with *)

Hms(h, m, sec) == h * 3600 + m * 60 + sec

\* rows of the page of one satellite
RowA(id) == PassRow(id, BaseDay * SecPerDay + Hms(20, 47, 12), 150, 150, 45, "visible")
RowB(id) == PassRow(id, BaseDay * SecPerDay + Hms(21, 0, 1), 45, 45, 30, "visible")
RowC(id) == PassRow(id, BaseDay * SecPerDay + Hms(10, 30, 0), 60, 60, 31, "visible")
RowD(id) == PassRow(id, (BaseDay + 1) * SecPerDay + Hms(10, 40, 0), 15, 15, 60, "visible")
RowE(id) == PassRow(id, BaseDay * SecPerDay + Hms(23, 50, 0), 1200, 300, 70, "visible")
RowF(id) == PassRow(id, BaseDay * SecPerDay + Hms(10, 50, 0), 150, 150, 80, "daylight")
RowG(id) == [RowA(id) EXCEPT !.link = "none", !.satid = NoSatid, !.mjd = NaN]

RunPages(id) ==
    { <<>>, <<RowA(id), RowB(id)>>, <<RowC(id), RowF(id)>>,
      <<RowD(id), RowA(id)>>, <<RowE(id)>>, <<RowG(id)>> }

HourOf(t) == t - (t % 3600)           \* isot[0:13] + ":00:00"

\* one hourly sample of the forecast; the values depend on the hour so that
\* two samples never agree
Sample(t) ==
    LET h == t \div 3600
    IN  [time |-> t, totalcloudcover |-> (h * 7) % 101, highclouds |-> (h * 3) % 101,
         midclouds |-> (h * 5) % 101, lowclouds |-> (h * 11) % 101,
         temperature |-> (h % 30) - 5, windspeed |-> h % 12,
         pictocode |-> 1 + (h % 35)]

\* hourly samples from hour number a to hour number b
RECURSIVE Hourly(_, _)
Hourly(a, b) == IF a > b THEN <<>> ELSE <<Sample(a * 3600)>> \o Hourly(a + 1, b)

\* a forecast that covers every hour of the passes, and one that stops at
\* 20:00 of the first day of passes
WeatherTables ==
    { Hourly(BaseDay * 24 + 10, (BaseDay + 1) * 24 + 23),
      Hourly(BaseDay * 24 + 10, BaseDay * 24 + 20) }

----------------------------------------------------------------------------
(* parse_summary2table *)

\* re.findall(r'<tr\s+class="clickableRow".*?</tr>', ...)
RECURSIVE SelectClickable(_)
SelectClickable(p) ==
    IF p = <<>> THEN <<>>
    ELSE IF Head(p).clickable THEN <<Head(p)>> \o SelectClickable(Tail(p))
         ELSE SelectClickable(Tail(p))

tr_list == SelectClickable(page)

\* _extract_passdetails_url: "" when neither pattern matches
ExtractPassdetailsUrl(tr) ==
    IF tr.link = "href" THEN [found |-> TRUE, satid |-> tr.satid, mjd |-> tr.mjd]
    ELSE IF tr.link = "onclick" THEN [found |-> TRUE, satid |-> tr.satid, mjd |-> tr.mjd]
    ELSE [found |-> FALSE, satid |-> NoSatid, mjd |-> NaN]

\* the magnitude taken as 0.0 when the cell is not numeric
BrightnessZero(tr) ==
    IF tr.mag.numeric THEN [present |-> TRUE, tenths |-> tr.mag.tenths]
    ELSE [present |-> TRUE, tenths |-> 0]

\* try: float(tds_text[1]) except: None
Brightness(tr) ==
    IF tr.mag.numeric THEN [present |-> TRUE, tenths |-> tr.mag.tenths]
    ELSE [present |-> FALSE, tenths |-> 0]

\* no row counts as too short
TooFewCellsNever(tr) == FALSE

\* lines 193-194: if len(tds_text) < 12: continue
TooFewCells(tr) == tr.ncells < MinCells

\* lines 245-246: the instant one day earlier is computed and dropped;
\* start_time_obj keeps its value
StartAfterRollover(start_time_obj, max_time_obj) == start_time_obj

\* lines 247-248: likewise for the end
EndAfterRollover(end_time_obj, max_time_obj) == end_time_obj

\* line 239: (end_time_obj - start_time_obj).sec, taken before the rollover
\* test, then int() at line 259
Duration(start_time_obj, end_time_obj) == end_time_obj - start_time_obj

\* One pass of the loop body, lines 186-272.
\* kind: "skip" (continue), "raise" (Time(nan) is refused), "emit"
ParseOneRow(tr, name) ==
    LET url == ExtractPassdetailsUrl(tr)
        satid_i == IF url.found THEN url.satid ELSE NoSatid
        mjd_f == IF url.found THEN url.mjd ELSE NaN
        max_time_obj == DateWithTod(mjd_f, tr.max_time)
        start_time_obj == DateWithTod(max_time_obj, tr.start_time)
        end_time_obj == DateWithTod(max_time_obj, tr.end_time)
        duration == Duration(start_time_obj, end_time_obj)
    IN  IF TooFewCells(tr) THEN [kind |-> "skip"]
        ELSE IF mjd_f = NaN THEN [kind |-> "raise"]
        ELSE [kind |-> "emit",
              rec |-> [satid |-> satid_i, satname |-> name,
                       mag |-> Brightness(tr), duration |-> duration,
                       start_utc |-> StartAfterRollover(start_time_obj, max_time_obj),
                       start_alt |-> tr.start_alt, start_az |-> tr.start_az,
                       max_utc |-> max_time_obj,
                       max_alt |-> tr.max_alt, max_az |-> tr.max_az,
                       end_utc |-> EndAfterRollover(end_time_obj, max_time_obj),
                       end_alt |-> tr.end_alt, end_az |-> tr.end_az,
                       visible |-> (tr.pass_type = "visible"),
                       detail_url |-> url, mjd |-> mjd_f]]

\* parse_summary2table as a whole: the rows of tr_list in order, until one
\* raises
RECURSIVE ParseRows(_, _, _)
ParseRows(trs, name, acc) ==
    IF trs = <<>> THEN [raised |-> FALSE, table |-> acc]
    ELSE LET r == ParseOneRow(Head(trs), name)
         IN  IF r.kind = "raise" THEN [raised |-> TRUE, table |-> acc]
             ELSE ParseRows(Tail(trs), name,
                            IF r.kind = "emit" THEN Append(acc, r.rec) ELSE acc)

ParseSummary2Table(query_result, name) ==
    ParseRows(SelectClickable(query_result), name, <<>>)

----------------------------------------------------------------------------
(* The script: one run *)

NoFile == [exists |-> FALSE, table |-> <<>>]
File(content) == [exists |-> TRUE, table |-> content]
NoError == [exc |-> "none", at |-> "none"]
Dates == 1..MaxRuns

\* the state of the script's variables when no run is under way
RunReset ==
    /\ env = ReadEnv(Empty)
    /\ sat_idx = 1
    /\ satname = ""
    /\ pass_table = <<>>
    /\ weather_table = <<>>
    /\ good_pass_table = <<>>
    /\ csv = NoFile
    /\ ics = NoFile
    /\ lines = <<>>
    /\ printed = FALSE
    /\ net = <<>>
    /\ error = NoError

RunIdle ==
    /\ runs = 0
    /\ today = 1
    /\ cache_dir = TRUE
    /\ cache = [d \in Dates |-> NoFile]
    /\ calls = [d \in Dates |-> 0]
    /\ pc = "idle"
    /\ RunReset

ParseIdle ==
    /\ page = <<>>
    /\ tr_idx = 1
    /\ cols = <<>>
    /\ parse_pc = "done"

\* _fold_ics_line is not running
FoldIdle ==
    /\ fold_arg = <<>>
    /\ line = <<>>
    /\ out = <<>>
    /\ fold_ret = <<>>
    /\ fold_pc = "done"

Init ==
    /\ ParseIdle
    /\ FoldIdle
    /\ runs = 0
    /\ today = 1
    /\ cache_dir \in BOOLEAN
    /\ cache = [d \in Dates |-> NoFile]
    /\ calls = [d \in Dates |-> 0]
    /\ pc = "idle"
    /\ RunReset

\* a request as the run records it: the endpoint, the satellite it is about
\* (0 when none) and the answer: "ok", "http_error" (raise_for_status raises)
\* or "not_ok" (HTTP success with a body that is not ok)
Request(call, satid, ok) ==
    [call |-> call, satid |-> satid, answer |-> IF ok THEN "ok" ELSE "http_error"]

\* an exception leaves the script
Raise(exc, at) ==
    /\ pc' = "aborted"
    /\ error' = [exc |-> exc, at |-> at]

\* the interpreter starts the script: lines 46-102.  The date may have
\* moved on since the run before.
StartRun ==
    /\ pc \in {"idle", "done", "aborted"}
    /\ runs < MaxRuns
    /\ runs' = runs + 1
    /\ \E d \in {today, today + 1} :
          /\ d \in Dates
          /\ d <= runs + 1
          /\ today' = d
    /\ \E environ \in Environs : env' = ReadEnv(environ)
    /\ sat_idx' = 1
    /\ satname' = ""
    /\ pass_table' = <<>>
    /\ weather_table' = <<>>
    /\ good_pass_table' = <<>>
    /\ csv' = NoFile
    /\ ics' = NoFile
    /\ lines' = <<>>
    /\ printed' = FALSE
    /\ net' = <<>>
    /\ error' = NoError
    /\ pc' = "tle"
    /\ UNCHANGED <<fold_vars, parse_vars, cache_dir, cache, calls>>

\* lines 117-121: the TLE of norad_ids[sat_idx] is retrieved and names the
\* satellite
GetLatestTLE ==
    /\ pc = "tle"
    /\ \E ok \in BOOLEAN :
          /\ net' = Append(net, Request("tle", norad_ids[sat_idx], ok))
          /\ IF ok
             THEN /\ satname' = SatName(norad_ids[sat_idx])
                  /\ pc' = "summary"
                  /\ UNCHANGED error
             ELSE /\ Raise("HTTPError", "tle")
                  /\ UNCHANGED satname
    /\ UNCHANGED <<fold_vars, parse_vars, disk_vars, env, sat_idx, pass_table, weather_table,
                   good_pass_table, csv, ics, lines, printed>>

\* the pass-summary request sent again after a non-success answer
GetPassSummaryRetry ==
    /\ pc = "summary"
    /\ \E ok \in BOOLEAN, query_result \in RunPages(norad_ids[sat_idx]) :
          LET parsed == ParseSummary2Table(query_result, satname)
          IN  /\ net' = Append(net, Request("summary", norad_ids[sat_idx], ok))
              /\ IF ~ok
                 THEN /\ Len(net) < 2 * Len(norad_ids) + 1
                      /\ UNCHANGED <<pc, error, pass_table, sat_idx>>
                 ELSE IF parsed.raised
                 THEN /\ Raise("ValueError", "parse")
                      /\ UNCHANGED <<pass_table, sat_idx>>
                 ELSE /\ pass_table' = pass_table \o parsed.table
                      /\ sat_idx' = sat_idx + 1
                      /\ pc' = IF sat_idx < Len(norad_ids) THEN "tle" ELSE "window"
                      /\ UNCHANGED error
    /\ UNCHANGED <<fold_vars, parse_vars, disk_vars, env, satname, weather_table,
                   good_pass_table, csv, ics, lines, printed>>

\* lines 123-131: get_pass_summary (heavens_above.py:77-81), then
\* parse_summary2table and vstack
GetPassSummary ==
    /\ pc = "summary"
    /\ \E ok \in BOOLEAN, query_result \in RunPages(norad_ids[sat_idx]) :
          LET parsed == ParseSummary2Table(query_result, satname)
          IN  /\ net' = Append(net, Request("summary", norad_ids[sat_idx], ok))
              /\ IF ~ok
                 THEN /\ Raise("HTTPError", "summary")
                      /\ UNCHANGED <<pass_table, sat_idx>>
                 ELSE IF parsed.raised
                 THEN /\ Raise("ValueError", "parse")
                      /\ UNCHANGED <<pass_table, sat_idx>>
                 ELSE /\ pass_table' = pass_table \o parsed.table
                      /\ sat_idx' = sat_idx + 1
                      /\ pc' = IF sat_idx < Len(norad_ids) THEN "tle" ELSE "window"
                      /\ UNCHANGED error
    /\ UNCHANGED <<fold_vars, parse_vars, disk_vars, env, satname, weather_table,
                   good_pass_table, csv, ics, lines, printed>>

\* lines 146-154: "evening" when the start is closer to the sunset than to
\* the sunrise of the night after the previous noon
TimeWindowOf(start_utc) ==
    LET sun_horizon == Tonight(PreviousNoon(start_utc))
    IN  IF Abs(start_utc - sun_horizon[1]) < Abs(start_utc - sun_horizon[2])
        THEN "evening" ELSE "morning"

\* line 155: the local calendar date of the peak
LocalDateOf(max_utc) == DayOf(max_utc + LstOffset)

\* r with the fields of extra added (a table row with further columns)
WithColumns(r, extra) == extra @@ r

\* lines 143-157
AddTimeWindow ==
    /\ pc = "window"
    /\ pass_table' =
          [i \in DOMAIN pass_table |->
              WithColumns(pass_table[i],
                          [date |-> LocalDateOf(pass_table[i].max_utc),
                           time_window |-> TimeWindowOf(pass_table[i].start_utc)])]
    /\ pc' = "weather"
    /\ UNCHANGED <<fold_vars, parse_vars, disk_vars, env, sat_idx, satname, weather_table,
                   good_pass_table, csv, ics, lines, printed, net, error>>


----------------------------------------------------------------------------
(* Forecast: cache or request, lines 167-238 *)

\* line 176: apikey or os.environ.get("METEOBLUE_APIKEY")
ApiKey(e) ==
    IF e.meteoblue_api_key # None THEN e.meteoblue_api_key ELSE e.meteoblue_apikey

\* line 214
UseCache == cache[today].exists /\ ~env.force_meteoblue

\* lines 215-216
ReadCache ==
    /\ pc = "weather"
    /\ UseCache
    /\ weather_table' = cache[today].table
    /\ pc' = "join"
    /\ UNCHANGED <<fold_vars, parse_vars, disk_vars, env, sat_idx, satname, pass_table,
                   good_pass_table, csv, ics, lines, printed, net, error>>

\* lines 224-235: fetch_meteoblue_10day_astropy, then the .csv and the .pkl
\* are written into tmp/heavens-above/meteoblue/, which nothing creates
FetchForecast ==
    /\ pc = "weather"
    /\ ~UseCache
    /\ IF ApiKey(env) = None
       THEN /\ Raise("ValueError", "forecast")
            /\ UNCHANGED <<net, calls, cache, weather_table>>
       ELSE /\ calls' = IF env.force_meteoblue THEN calls
                        ELSE [calls EXCEPT ![today] = @ + 1]
            /\ \E ok \in BOOLEAN, tbl \in WeatherTables :
                  /\ net' = Append(net, Request("forecast", 0, ok))
                  /\ IF ~ok
                     THEN /\ Raise("HTTPError", "forecast")
                          /\ UNCHANGED <<cache, weather_table>>
                     ELSE /\ weather_table' = tbl
                          /\ IF ~cache_dir
                             THEN /\ Raise("FileNotFoundError", "cache")
                                  /\ UNCHANGED cache
                             ELSE /\ cache' = [cache EXCEPT ![today] = File(tbl)]
                                  /\ pc' = "join"
                                  /\ UNCHANGED error
    /\ UNCHANGED <<fold_vars, parse_vars, runs, today, cache_dir, env, sat_idx, satname,
                   pass_table, good_pass_table, csv, ics, lines, printed>>

----------------------------------------------------------------------------
(* Weather join, lines 247-283 *)

NA == -1000                           \* the "N/A" of a weather column

RECURSIVE IndicesFrom(_, _, _)
IndicesFrom(tbl, t, i) ==
    IF i > Len(tbl) THEN <<>>
    ELSE IF tbl[i].time = t THEN <<i>> \o IndicesFrom(tbl, t, i + 1)
         ELSE IndicesFrom(tbl, t, i + 1)

\* np.where(weather_table["time"] == t): a tuple that holds one array, the
\* indices at which the comparison is true
NpWhere(tbl, t) == << IndicesFrom(tbl, t, 1) >>

WeatherColumns(w) ==
    [totalcloudcover |-> w.totalcloudcover, highclouds |-> w.highclouds,
     midclouds |-> w.midclouds, lowclouds |-> w.lowclouds,
     temperature |-> w.temperature, windspeed |-> w.windspeed,
     pictocode |-> w.pictocode]

NAColumns ==
    [totalcloudcover |-> NA, highclouds |-> NA, midclouds |-> NA, lowclouds |-> NA,
     temperature |-> NA, windspeed |-> NA, pictocode |-> NA]

\* lines 257-274 for one row: len(idxs) is the length of the tuple;
\* idxs[0][0] raises IndexError when the array is empty
JoinRow(row, tbl) ==
    LET idxs == NpWhere(tbl, HourOf(row.start_utc))
    IN  IF Len(idxs) > 0
        THEN IF Len(idxs[1]) = 0
             THEN [raised |-> TRUE, row |-> row]
             ELSE [raised |-> FALSE,
                   row |-> WithColumns(row, WeatherColumns(tbl[idxs[1][1]]))]
        ELSE [raised |-> FALSE, row |-> WithColumns(row, NAColumns)]

\* lines 256-283: the loop, then the columns are assigned
JoinWeather ==
    /\ pc = "join"
    /\ IF \E i \in DOMAIN pass_table : JoinRow(pass_table[i], weather_table).raised
       THEN /\ Raise("IndexError", "join")
            /\ UNCHANGED pass_table
       ELSE /\ pass_table' = [i \in DOMAIN pass_table |->
                                 JoinRow(pass_table[i], weather_table).row]
            /\ pc' = "csv"
            /\ UNCHANGED error
    /\ UNCHANGED <<fold_vars, parse_vars, disk_vars, env, sat_idx, satname, weather_table,
                   good_pass_table, csv, ics, lines, printed, net>>

\* line 333
WriteCsv ==
    /\ pc = "csv"
    /\ csv' = File(pass_table)
    /\ pc' = "ics"
    /\ UNCHANGED <<fold_vars, parse_vars, disk_vars, env, sat_idx, satname, pass_table,
                   weather_table, good_pass_table, ics, lines, printed, net, error>>

----------------------------------------------------------------------------
(* Selection of the good passes, calendar file *)

\* the window clause applied to the evening only
WindowRequestedEveningOnly(e) == e.time_window = "evening"

\* lines 480, 524, 571: time_window == "evening" or time_window == "morning"
WindowRequested(e) == e.time_window = "evening" \/ e.time_window = "morning"

\* the calendar filter with the altitude compared strictly
IcsFilterStrictAlt(row, e) ==
    /\ row.max_alt > e.min_alt
    /\ row.duration > e.min_duration
    /\ row.visible = TRUE
    /\ WindowRequested(e) => row.time_window = e.time_window

\* lines 480-483: the rows the calendar file is written from
IcsFilter(row, e) ==
    /\ row.max_alt >= e.min_alt
    /\ row.duration > e.min_duration
    /\ row.visible = TRUE
    /\ WindowRequested(e) => row.time_window = e.time_window

\* lines 571-574: the rows of the by-date notification
BydateFilter(row, e) ==
    /\ row.max_alt >= e.min_alt
    /\ row.duration > e.min_duration
    /\ row.visible = TRUE
    /\ WindowRequested(e) => row.time_window = e.time_window

BysatMinAlt == 30
BysatMinDuration == 120

\* lines 524-527: good_condition of the by-satellite notification
BysatGoodCondition(row, e) ==
    /\ row.max_alt > BysatMinAlt
    /\ row.duration > BysatMinDuration
    /\ row.visible = TRUE
    /\ WindowRequested(e) => row.time_window = e.time_window

\* stable sort of a sequence of <<key, element>> pairs by the integer key
RECURSIVE InsertPair(_, _)
InsertPair(x, sorted) ==
    IF sorted = <<>> THEN <<x>>
    ELSE IF x[1] < Head(sorted)[1] THEN <<x>> \o sorted
         ELSE <<Head(sorted)>> \o InsertPair(x, Tail(sorted))

RECURSIVE SortPairs(_)
SortPairs(s) ==
    IF s = <<>> THEN <<>>
    ELSE InsertPair(s[Len(s)], SortPairs(SubSeq(s, 1, Len(s) - 1)))

\* Table.sort / the ordering of Table.group_by: a stable sort by Key
SortByKey(s, Key(_)) ==
    LET sorted == SortPairs([i \in DOMAIN s |-> <<Key(s[i]), s[i]>>])
    IN  [i \in DOMAIN sorted |-> sorted[i][2]]

\* line 445: f"{satid}.{row['mjd']:.1f}@SatPass", the mjd in tenths of a day
Uid(row) == [satid |-> row.satid, mjd_tenths |-> (row.mjd * 10 + SecPerDay \div 2) \div SecPerDay]

\* lines 385-464: one VEVENT per row
IcsEvent(row) ==
    [uid |-> Uid(row), satname |-> row.satname,
     dtstart |-> row.start_utc + LstOffset, dtend |-> row.end_utc + LstOffset,
     pictocode |-> row.pictocode, totalcloudcover |-> row.totalcloudcover,
     duration |-> row.duration, mjd |-> row.mjd]

\* lines 480-487.  write_passes_to_ics formats the temperature and the wind of
\* every row as numbers and names pict only for a row with weather: a row whose
\* weather is "N/A" raises.
WriteIcs ==
    /\ pc = "ics"
    /\ LET selected == SelectSeq(pass_table, LAMBDA r : IcsFilter(r, env))
           grouped == SortByKey(selected, LAMBDA r : NameRank(r.satname))
       IN  /\ good_pass_table' = grouped
           /\ IF \E i \in DOMAIN grouped : grouped[i].totalcloudcover = NA
              THEN /\ Raise("ValueError", "ics")
                   /\ UNCHANGED ics
              ELSE /\ ics' = File([i \in DOMAIN grouped |-> IcsEvent(grouped[i])])
                   /\ pc' = "compose"
                   /\ UNCHANGED error
    /\ UNCHANGED <<fold_vars, parse_vars, disk_vars, env, sat_idx, satname, pass_table,
                   weather_table, csv, lines, printed, net>>

----------------------------------------------------------------------------
(* The notification, lines 507-642 *)

\* lines 546-551 and 612-617: the cloud and wind cells of a table line
RenderRow(row) ==
    [pass |-> row, placeholder |-> (row.totalcloudcover = NA)]

RenderRows(rows) == [i \in DOMAIN rows |-> RenderRow(rows[i])]

\* pass_table.groups of a table that was never grouped: one group, the table
TableGroups(tbl) == << tbl >>

\* lines 514-566 for one group
BysatGroup(group, e) ==
    [key |-> group[1].satname, norad_id |-> group[1].satid, n |-> Len(group),
     has_summary |-> FALSE, summary |-> <<>>,
     rows |-> RenderRows(SelectSeq(group, LAMBDA r : BysatGoodCondition(r, e)))]

Min(S) == CHOOSE x \in S : \A y \in S : x <= y
Max(S) == CHOOSE x \in S : \A y \in S : x >= y

RECURSIVE Sum(_)
Sum(s) == IF s = <<>> THEN 0 ELSE Head(s) + Sum(Tail(s))

SumOf(s, Field(_)) == Sum([i \in DOMAIN s |-> Field(s[i])])

\* lines 585-594: the daily weather summary over the rows with weather
WeatherSummary(weather_available) ==
    LET clouds == { weather_available[i].totalcloudcover : i \in DOMAIN weather_available }
        pictos == { weather_available[i].pictocode : i \in DOMAIN weather_available }
    IN  [cloud_min |-> Min(clouds), cloud_max |-> Max(clouds),
         cloud_sum |-> SumOf(weather_available, LAMBDA r : r.totalcloudcover),
         wind_sum |-> SumOf(weather_available, LAMBDA r : r.windspeed),
         temp_sum |-> SumOf(weather_available, LAMBDA r : r.temperature),
         n |-> Len(weather_available), pict |-> Max(pictos)]

\* lines 579-631 for one date group
BydateGroup(group) ==
    LET weather_available == SelectSeq(group, LAMBDA r : r.totalcloudcover # NA)
    IN  [key |-> group[1].date, norad_id |-> 0, n |-> Len(group),
         has_summary |-> Len(weather_available) > 0,
         summary |-> IF Len(weather_available) > 0
                     THEN <<WeatherSummary(weather_available)>> ELSE <<>>,
         rows |-> RenderRows(group)]

\* the groups of a table sorted by date: maximal runs of equal date
RECURSIVE GroupsByDate(_)
GroupsByDate(tbl) ==
    IF tbl = <<>> THEN <<>>
    ELSE LET d == Head(tbl).date
             same == SelectSeq(tbl, LAMBDA r : r.date = d)
             rest == SelectSeq(tbl, LAMBDA r : r.date # d)
         IN  <<same>> \o GroupsByDate(rest)

\* the selection grouped by date without the sort by start_utc
BydateTableUnsorted(tbl, e) ==
    SortByKey(SelectSeq(tbl, LAMBDA r : BydateFilter(r, e)), LAMBDA r : r.date)

\* lines 571-576: filter, sort by start_utc, group by date
BydateTable(tbl, e) ==
    SortByKey(SortByKey(SelectSeq(tbl, LAMBDA r : BydateFilter(r, e)),
                        LAMBDA r : r.start_utc),
              LAMBDA r : r.date)

\* lines 507-642
Compose ==
    /\ pc = "compose"
    /\ IF env.notify_type = "bysat" /\ pass_table = <<>>
       THEN /\ Raise("IndexError", "compose")
            /\ UNCHANGED lines
       ELSE /\ lines' =
                 IF env.notify_type = "bysat"
                 THEN LET groups == TableGroups(pass_table)
                      IN  [g \in DOMAIN groups |-> BysatGroup(groups[g], env)]
                 ELSE IF env.notify_type = "bydate"
                 THEN LET groups == GroupsByDate(BydateTable(pass_table, env))
                      IN  [g \in DOMAIN groups |-> BydateGroup(groups[g])]
                 ELSE <<>>
            /\ pc' = "preview"
            /\ UNCHANGED error
    /\ UNCHANGED <<fold_vars, parse_vars, disk_vars, env, sat_idx, satname, pass_table,
                   weather_table, good_pass_table, csv, ics, printed, net>>

\* the preview printed only when the notification is going to be sent
PreviewWhenSending ==
    /\ pc = "preview"
    /\ printed' = env.send_notice
    /\ pc' = IF env.send_notice THEN "slack_get_url" ELSE "done"
    /\ UNCHANGED <<fold_vars, parse_vars, disk_vars, env, sat_idx, satname, pass_table,
                   weather_table, good_pass_table, csv, ics, lines, net, error>>

\* lines 649-658: the preview is printed, then the send switch is tested
Preview ==
    /\ pc = "preview"
    /\ printed' = TRUE
    /\ pc' = IF env.send_notice THEN "slack_get_url" ELSE "done"
    /\ UNCHANGED <<fold_vars, parse_vars, disk_vars, env, sat_idx, satname, pass_table,
                   weather_table, good_pass_table, csv, ics, lines, net, error>>

----------------------------------------------------------------------------
(* Delivery to the chat service, lines 658-719 *)

\* the answers slack_api_post can meet: HTTP error, a body with ok false, ok.
\* Without a token the request carries "Bearer None" and is not accepted.
SlackAnswers(e) ==
    IF e.slack_api_token = None THEN {"http_error", "not_ok"}
    ELSE {"http_error", "not_ok", "ok"}

\* slack_api_post without the test of the body
SlackApiPostLenient(endpoint, next_pc) ==
    \E answer \in SlackAnswers(env) :
       /\ net' = Append(net, [call |-> endpoint, satid |-> 0, answer |-> answer])
       /\ IF answer = "http_error" THEN Raise("HTTPError", endpoint)
          ELSE pc' = next_pc /\ UNCHANGED error

\* lines 667-679 applied to one endpoint
SlackApiPost(endpoint, next_pc) ==
    \E answer \in SlackAnswers(env) :
       /\ net' = Append(net, [call |-> endpoint, satid |-> 0, answer |-> answer])
       /\ IF answer = "http_error" THEN Raise("HTTPError", endpoint)
          ELSE IF answer = "not_ok" THEN Raise("RuntimeError", endpoint)
          ELSE pc' = next_pc /\ UNCHANGED error

\* lines 685-694
SlackGetUploadURL ==
    /\ pc = "slack_get_url"
    /\ SlackApiPost("files.getUploadURLExternal", "slack_upload")
    /\ UNCHANGED <<fold_vars, parse_vars, disk_vars, env, sat_idx, satname, pass_table,
                   weather_table, good_pass_table, csv, ics, lines, printed>>

\* lines 697-704
SlackUpload ==
    /\ pc = "slack_upload"
    /\ \E ok \in BOOLEAN :
          /\ net' = Append(net, Request("upload", 0, ok))
          /\ IF ok THEN pc' = "slack_complete" /\ UNCHANGED error
             ELSE Raise("HTTPError", "upload")
    /\ UNCHANGED <<fold_vars, parse_vars, disk_vars, env, sat_idx, satname, pass_table,
                   weather_table, good_pass_table, csv, ics, lines, printed>>

\* lines 707-719
SlackComplete ==
    /\ pc = "slack_complete"
    /\ SlackApiPost("files.completeUploadExternal", "done")
    /\ UNCHANGED <<fold_vars, parse_vars, disk_vars, env, sat_idx, satname, pass_table,
                   weather_table, good_pass_table, csv, ics, lines, printed>>

Next ==
    \/ StartRun
    \/ GetLatestTLE
    \/ GetPassSummary
    \/ AddTimeWindow
    \/ ReadCache
    \/ FetchForecast
    \/ JoinWeather
    \/ WriteCsv
    \/ WriteIcs
    \/ Compose
    \/ Preview
    \/ SlackGetUploadURL
    \/ SlackUpload
    \/ SlackComplete

Spec == Init /\ [][Next]_vars

----------------------------------------------------------------------------
(* parse_summary2table on its own: the page is the input *)

ParseSatName == "ISS (ZARYA)"

ParseInit ==
    /\ page \in Pages
    /\ tr_idx = 1
    /\ cols = <<>>
    /\ parse_pc = "loop"
    /\ RunIdle
    /\ FoldIdle

\* one iteration of "for tr_html in tr_list"
ParseRow ==
    /\ parse_pc = "loop"
    /\ tr_idx <= Len(tr_list)
    /\ LET r == ParseOneRow(tr_list[tr_idx], ParseSatName)
       IN  /\ cols' = IF r.kind = "emit" THEN Append(cols, r.rec) ELSE cols
           /\ parse_pc' = IF r.kind = "raise" THEN "raised" ELSE "loop"
    /\ tr_idx' = tr_idx + 1
    /\ UNCHANGED <<page, disk_vars, run_vars, fold_vars>>

\* the loop is exhausted: Table(cols) is returned
ParseReturn ==
    /\ parse_pc = "loop"
    /\ tr_idx > Len(tr_list)
    /\ parse_pc' = "done"
    /\ UNCHANGED <<page, tr_idx, cols, disk_vars, run_vars, fold_vars>>

ParseNext == ParseRow \/ ParseReturn

SpecParse == ParseInit /\ [][ParseNext]_vars

----------------------------------------------------------------------------
(* _fold_ics_line on its own: the line is the input.  A string is the        *)
(* sequence of its character codes.                                          *)

MaxLineLen == 230     \* length of the longest line given to the function

limit == 75           \* the default of the parameter limit
SP == 32              \* " "
CR == 13              \* "\r"
LF == 10              \* "\n"

\* the character at position i of a line of one of four kinds: letters only,
\* spaces only, words with a space at every fifth position, words with a
\* space after every fifth position
CharAt(kind, i) ==
    IF kind = "letters" THEN 97 + (i % 26)
    ELSE IF kind = "spaces" THEN SP
    ELSE IF kind = "words" THEN (IF i % 5 = 0 THEN SP ELSE 97 + (i % 26))
    ELSE (IF i % 5 = 1 THEN SP ELSE 97 + (i % 26))

TextLine(n, kind) == [i \in 1..n |-> CharAt(kind, i)]

FoldLines ==
    { TextLine(n, kind) : n \in 0..MaxLineLen,
                          kind \in {"letters", "spaces", "words", "words+1"} }

\* "\r\n".join(out)
RECURSIVE JoinCrlf(_)
JoinCrlf(segments) ==
    IF segments = <<>> THEN <<>>
    ELSE IF Len(segments) = 1 THEN segments[1]
    ELSE segments[1] \o <<CR, LF>> \o JoinCrlf(Tail(segments))

\* what is left of the line, taken without a leading space
ContinuationBare(rest) == rest

\* line 366: " " + line[limit:]
Continuation(rest) == <<SP>> \o rest

\* a cut one character short of the limit
SegmentShort(ln) == SubSeq(ln, 1, limit - 1)

\* line 365: line[:limit]
Segment(ln) == SubSeq(ln, 1, limit)

FoldInit ==
    /\ fold_arg \in FoldLines
    /\ line = fold_arg
    /\ out = <<>>
    /\ fold_ret = <<>>
    /\ fold_pc = "entry"
    /\ ParseIdle
    /\ RunIdle

\* lines 361-363: a line within the limit is returned as it is
FoldEntry ==
    /\ fold_pc = "entry"
    /\ IF Len(line) <= limit
       THEN /\ fold_ret' = line
            /\ fold_pc' = "done"
       ELSE /\ fold_pc' = "while"
            /\ UNCHANGED fold_ret
    /\ out' = <<>>
    /\ UNCHANGED <<fold_arg, line, parse_vars, disk_vars, run_vars>>

\* lines 364-366: one iteration of "while len(line) > limit"
FoldWhile ==
    /\ fold_pc = "while"
    /\ Len(line) > limit
    /\ out' = Append(out, Segment(line))
    /\ line' = Continuation(SubSeq(line, limit + 1, Len(line)))
    /\ UNCHANGED <<fold_arg, fold_ret, fold_pc, parse_vars, disk_vars, run_vars>>

\* lines 367-368: the rest is the last segment; the segments are joined
FoldReturn ==
    /\ fold_pc = "while"
    /\ Len(line) <= limit
    /\ out' = Append(out, line)
    /\ fold_ret' = JoinCrlf(out')
    /\ fold_pc' = "done"
    /\ UNCHANGED <<fold_arg, line, parse_vars, disk_vars, run_vars>>

FoldNext == FoldEntry \/ FoldWhile \/ FoldReturn

SpecFold == FoldInit /\ [][FoldNext]_vars

\* the function runs on once it is called: the interpreter takes the next
\* statement whenever there is one
SpecFoldLive == SpecFold /\ WF_vars(FoldNext)

----------------------------------------------------------------------------
(* Properties of parse_summary2table, checked under SpecParse *)

Range(s) == { s[i] : i \in DOMAIN s }

\* the rows of tr_list that reach the output: the i-th record of cols comes
\* from the i-th of them
EmittingRows == SelectSeq(tr_list, LAMBDA tr : tr.ncells >= MinCells)

\* C1: every emitted record with a valid mjd has
\* start_utc <= max_utc <= end_utc, also when the start or the end lies on
\* the other side of midnight from the peak.
C1_StartMaxEndOrdered ==
    \A i \in DOMAIN cols :
        cols[i].mjd # NaN =>
            /\ cols[i].start_utc <= cols[i].max_utc
            /\ cols[i].max_utc <= cols[i].end_utc

\* C2: when the start time-of-day on the peak's date is later than the peak,
\* the stored start is exactly one day earlier: on the day before max_utc.
C2_StartOnDayBeforeMax ==
    \A i \in DOMAIN cols :
        LET same_day_start == DateWithTod(cols[i].max_utc, EmittingRows[i].start_time)
        IN  same_day_start > cols[i].max_utc =>
                /\ cols[i].start_utc = same_day_start - SecPerDay
                /\ DayOf(cols[i].start_utc) = DayOf(cols[i].max_utc) - 1

\* C3: the duration of every emitted record is non-negative.
C3_DurationNonNegative ==
    \A i \in DOMAIN cols : cols[i].duration >= 0

\* C4: a pass that ends 90 s after it starts is emitted with duration 90,
\* whatever the time of day of the start; the duration is the emitted end
\* minus the emitted start.
C4_DurationIsEndMinusStart ==
    \A i \in DOMAIN cols :
        /\ (EmittingRows[i].end_time - EmittingRows[i].start_time) % SecPerDay = 90
              => cols[i].duration = 90
        /\ cols[i].duration = cols[i].end_utc - cols[i].start_utc

----------------------------------------------------------------------------
(* Properties of the script, checked under Spec *)

AfterCompose == {"preview", "slack_get_url", "slack_upload", "slack_complete", "done"}
AfterIcs == {"compose"} \cup AfterCompose
AfterJoin == {"csv", "ics"} \cup AfterIcs

\* the join loop has run in this run, to its end or to an exception
JoinRan ==
    \/ pc \in AfterJoin
    \/ pc = "aborted" /\ error.at \notin {"tle", "summary", "parse", "forecast", "cache"}

WeatherFields ==
    {"totalcloudcover", "highclouds", "midclouds", "lowclouds", "temperature",
     "windspeed", "pictocode"}

SamplesAt(tbl, t) == { i \in DOMAIN tbl : tbl[i].time = t }

\* the row carries the sample of its truncated start hour, or "N/A" in every
\* weather field when the forecast has no such sample
JoinedExactly(row, tbl) ==
    LET hits == SamplesAt(tbl, HourOf(row.start_utc))
    IN  /\ WeatherFields \subseteq DOMAIN row
        /\ IF hits = {}
           THEN \A f \in WeatherFields : row[f] = NA
           ELSE \E i \in hits : \A f \in WeatherFields : row[f] = tbl[i][f]

\* C5: after the join every pass carries the weather of the sample at its
\* start truncated to the hour, and "N/A" exactly when there is no such
\* sample.
C5_WeatherJoinExact ==
    JoinRan => \A i \in DOMAIN pass_table : JoinedExactly(pass_table[i], weather_table)

\* a pass of the table whose truncated start hour has no forecast sample
JoinMiss ==
    \E i \in DOMAIN pass_table :
        SamplesAt(weather_table, HourOf(pass_table[i].start_utc)) = {}

\* C6: a join miss does not end the run: no run with a join miss is aborted
\* by the join or by the rendering of the pass without weather.
C6_JoinMissTolerated ==
    (JoinRan /\ JoinMiss /\ pc = "aborted") => error.at \notin {"join", "ics", "compose"}

\* the passes shown in the notification
NoticePasses ==
    UNION { { lines[g].rows[i].pass : i \in DOMAIN lines[g].rows } : g \in DOMAIN lines }

\* the passes of the calendar file
CalendarPasses == Range(good_pass_table)

\* C7: the calendar file, the by-date notification and the by-satellite
\* notification select the same passes from the same table and configuration.
C7_SameSelectionEverywhere ==
    pc \in AfterCompose => NoticePasses = CalendarPasses

\* the pass meets the clauses of the filter other than the altitude
MeetsOtherClauses(r, e) ==
    /\ r.duration > e.min_duration
    /\ r.visible
    /\ WindowRequested(e) => r.time_window = e.time_window

ForecastRequested == \E i \in DOMAIN net : net[i].call = "forecast"

\* the forecast request of this run was answered with the forecast
ForecastFetched ==
    ForecastRequested /\ ~(pc = "aborted" /\ error.at = "forecast")

\* C9: without the force switch the forecast endpoint is called at most once
\* per UTC date over the runs; a run that finds today's cache file uses it
\* and sends no request; a run that fetched leaves today's cache file; with
\* the force switch the run fetches although the cache exists.
C9_FetchOncePerDay ==
    /\ ForecastFetched =>
          /\ cache[today].exists
          /\ cache[today].table = weather_table
    /\ \A d \in Dates : calls[d] <= 1
    /\ (pc = "join" /\ ~ForecastRequested) => weather_table = cache[today].table
    /\ (pc \in {"join"} \cup AfterJoin /\ env.force_meteoblue) => ForecastRequested

\* a required credential or key is missing
ConfigurationError(e) ==
    \/ ApiKey(e) = None
    \/ e.send_notice /\ (e.slack_api_token = None \/ e.channel_id = None)

\* C10: a run with a missing credential or key is aborted at startup, before
\* any network call.
C10_ConfigErrorBeforeNetwork ==
    (pc # "idle" /\ ConfigurationError(env)) => net = <<>>

\* the run was ended by a non-success HTTP status of a pass-summary, forecast
\* or chat request
HttpAborted ==
    /\ pc = "aborted"
    /\ error.exc = "HTTPError"
    /\ error.at # "tle"

\* C11: a run that a non-success HTTP status of the pass-summary, forecast or
\* chat endpoint has ended has written neither the CSV file nor the calendar
\* file.
C11_HttpErrorLeavesNoOutput ==
    HttpAborted => (~csv.exists /\ ~ics.exists)

----------------------------------------------------------------------------
(* Tolerance of the parser, checked under SpecParse *)

\* the loop is about to handle the row tr_list[tr_idx]
AtRow == parse_pc = "loop" /\ tr_idx <= Len(tr_list)

\* the loop goes on with the next row
LoopGoesOn == parse_pc' = "loop" /\ tr_idx' = tr_idx + 1

\* C12: a row with at least 12 cells and a detail link whose magnitude cell
\* is not numeric adds a record whose magnitude is absent (None, not 0.0),
\* and the loop goes on with the rows after it.
C12_MissingMagnitudeTolerated ==
    [][ (AtRow /\ tr_list[tr_idx].ncells >= MinCells /\ tr_list[tr_idx].link # "none"
               /\ ~tr_list[tr_idx].mag.numeric)
            => /\ Len(cols') = Len(cols) + 1
               /\ SubSeq(cols', 1, Len(cols)) = cols
               /\ cols'[Len(cols')].mag.present = FALSE
               /\ cols'[Len(cols')].max_alt = tr_list[tr_idx].max_alt
               /\ LoopGoesOn ]_vars

\* a page was parsed to its end whose first row has no numeric magnitude: its
\* record has no magnitude and the record of the row after it follows
C12_Witness ==
    /\ parse_pc = "done"
    /\ Len(tr_list) = 2
    /\ ~tr_list[1].mag.numeric
    /\ Len(cols) = 2
    /\ cols[1].mag.present = FALSE
    /\ cols[2].mag.present = TRUE

----------------------------------------------------------------------------
(* The calendar file, checked under Spec *)

\* C13: in one calendar file any two distinct pass records have distinct
\* event UIDs; in particular two passes of one satellite whose peaks are less
\* than 0.1 day apart.
C13_UidsDistinct ==
    ics.exists =>
        \A i, j \in DOMAIN ics.table :
            i # j => ics.table[i].uid # ics.table[j].uid

----------------------------------------------------------------------------
(* Line folding, checked under SpecFold *)

\* the positions at which a CR LF pair begins
Cuts(str) == { i \in 1..(Len(str) - 1) : str[i] = CR /\ str[i + 1] = LF }

\* the k-th of them
CutAt(str, k) ==
    CHOOSE c \in Cuts(str) : Cardinality({ d \in Cuts(str) : d < c }) = k - 1

\* the segments of a string that CR LF pairs separate
SplitCrlf(str) ==
    LET n == Cardinality(Cuts(str)) + 1
    IN  [k \in 1..n |->
            SubSeq(str,
                   IF k = 1 THEN 1 ELSE CutAt(str, k - 1) + 2,
                   IF k = n THEN Len(str) ELSE CutAt(str, k) - 1)]

\* the segments one after the other, each continuation without its first
\* character
RECURSIVE Unfold(_)
Unfold(segments) ==
    IF segments = <<>> THEN <<>>
    ELSE segments[1] \o Unfold([i \in 1..(Len(segments) - 1) |-> segments[i + 1]])

Unfolded(segments) ==
    Unfold([i \in DOMAIN segments |-> IF i = 1 THEN segments[i] ELSE Tail(segments[i])])

\* C14: a line of at most 75 characters is returned unchanged; a longer line
\* is returned as CRLF-separated segments of at most 75 characters each, the
\* first being the first 75 characters of the line, every continuation
\* beginning with one inserted space, after which the line goes on.
C14_FoldIcsLine ==
    fold_pc = "done" =>
        IF Len(fold_arg) <= limit
        THEN fold_ret = fold_arg
        ELSE LET segments == SplitCrlf(fold_ret)
             IN  /\ Len(segments) >= 2
                 /\ \A k \in DOMAIN segments :
                       /\ Len(segments[k]) <= limit
                       /\ Len(segments[k]) >= 1
                 /\ segments[1] = SubSeq(fold_arg, 1, limit)
                 /\ \A k \in 2..Len(segments) : segments[k][1] = SP
                 /\ Unfolded(segments) = fold_arg

\* a line of 200 characters was folded into three segments
C14_Witness ==
    /\ fold_pc = "done"
    /\ Len(fold_arg) = 200
    /\ Len(out) = 3
    /\ Len(fold_ret) = 200 + 2 * 3

----------------------------------------------------------------------------
(* Rows the parser drops or keeps, checked under SpecParse *)

\* C15: a clickable row with fewer than 12 cells adds no record, does not
\* end the parsing, and the loop goes on with the rows after it.
C15_ShortRowDiscarded ==
    [][ (AtRow /\ tr_list[tr_idx].ncells < MinCells)
            => (cols' = cols /\ LoopGoesOn) ]_vars

\* a page was parsed to its end whose first clickable row is short and whose
\* second is not: the only record is the second row's
C15_Witness ==
    /\ parse_pc = "done"
    /\ Len(tr_list) = 2
    /\ tr_list[1].ncells < MinCells
    /\ tr_list[2].ncells >= MinCells
    /\ Len(cols) = 1
    /\ TodOf(cols[1].max_utc) = tr_list[2].max_time

\* C16: a row with at least 12 cells and no detail link adds a record with
\* an empty detail reference, satellite id -1 and day-fraction NaN, and the
\* loop goes on with the rows after it.
C16_LinklessRowRetained ==
    [][ (AtRow /\ tr_list[tr_idx].ncells >= MinCells /\ tr_list[tr_idx].link = "none")
            => /\ Len(cols') = Len(cols) + 1
               /\ SubSeq(cols', 1, Len(cols)) = cols
               /\ ~cols'[Len(cols')].detail_url.found
               /\ cols'[Len(cols')].satid = NoSatid
               /\ cols'[Len(cols')].mjd = NaN
               /\ LoopGoesOn ]_vars

\* the call has ended, by return or by an exception
ParseEnded == parse_pc \in {"done", "raised"}

\* the record is the one of the row
RecordOf(rec, tr) ==
    /\ rec.max_alt = tr.max_alt
    /\ rec.visible = (tr.pass_type = "visible")
    /\ TodOf(rec.start_utc) = tr.start_time
    /\ TodOf(rec.max_utc) = tr.max_time
    /\ TodOf(rec.end_utc) = tr.end_time

\* the rows of the page that carry the marker and have at least 12 cells
MarkedFullRows == SelectSeq(page, LAMBDA tr : tr.clickable /\ tr.ncells >= MinCells)

\* C17: the call emits exactly one record per row that carries the marker
\* and has at least 12 cells, in page order, and none for any other row.
C17_OneRecordPerRowInOrder ==
    ParseEnded =>
        /\ Len(cols) = Len(MarkedFullRows)
        /\ \A i \in DOMAIN cols : RecordOf(cols[i], MarkedFullRows[i])

----------------------------------------------------------------------------
(* Grouping and ordering of the notification, checked under Spec *)

\* the satellite names of a table in the order they are first seen
RECURSIVE FirstSeen(_)
FirstSeen(tbl) ==
    IF tbl = <<>> THEN <<>>
    ELSE <<Head(tbl).satname>>
         \o FirstSeen(SelectSeq(Tail(tbl), LAMBDA r : r.satname # Head(tbl).satname))

\* C18: the by-satellite notification has one group per distinct satellite of
\* the pass table, in first-seen order, and every group shows passes of its
\* own satellite only.
C18_BysatGroupsPerSatellite ==
    (pc \in AfterCompose /\ env.notify_type = "bysat") =>
        /\ [g \in DOMAIN lines |-> lines[g].key] = FirstSeen(pass_table)
        /\ \A g \in DOMAIN lines : \A i \in DOMAIN lines[g].rows :
              lines[g].rows[i].pass.satname = lines[g].key

\* C19: the by-date notification shows the date groups in ascending order of
\* the local date of the peak, every pass under its own date, and the passes
\* of a group in ascending order of start time.
C19_BydateOrdered ==
    (pc \in AfterCompose /\ env.notify_type = "bydate") =>
        /\ \A g, h \in DOMAIN lines : g < h => lines[g].key < lines[h].key
        /\ \A g \in DOMAIN lines : \A i \in DOMAIN lines[g].rows :
              /\ lines[g].rows[i].pass.date = lines[g].key
              /\ lines[g].rows[i].pass.date = DayOf(lines[g].rows[i].pass.max_utc + LstOffset)
              /\ \A j \in DOMAIN lines[g].rows :
                    i < j => lines[g].rows[i].pass.start_utc <= lines[g].rows[j].pass.start_utc

\* a by-date notification with two date groups, made from a table in which a
\* shown pass stands before a shown pass that starts earlier
C19_Witness ==
    /\ pc \in AfterCompose
    /\ env.notify_type = "bydate"
    /\ Len(lines) >= 2
    /\ \E i, j \in DOMAIN pass_table :
          /\ i < j
          /\ pass_table[i] \in NoticePasses
          /\ pass_table[j] \in NoticePasses
          /\ pass_table[i].start_utc > pass_table[j].start_utc

\* the pass meets the clauses of the filter other than the window
MeetsThresholds(r, e) ==
    /\ r.max_alt >= e.min_alt
    /\ r.duration > e.min_duration
    /\ r.visible

\* C20: when the requested window is "morning" or "evening" only passes with
\* that label are selected; for any other value, unset and "all" included, a
\* pass that meets the other clauses is selected whatever its label.
C20_WindowClause ==
    /\ pc \in AfterIcs =>
          IF env.time_window \in {"morning", "evening"}
          THEN \A r \in CalendarPasses : r.time_window = env.time_window
          ELSE \A i \in DOMAIN pass_table :
                  MeetsThresholds(pass_table[i], env) => pass_table[i] \in CalendarPasses
    /\ pc \in AfterCompose =>
          IF env.time_window \in {"morning", "evening"}
          THEN \A r \in NoticePasses : r.time_window = env.time_window
          ELSE env.notify_type = "bydate" =>
                  \A i \in DOMAIN pass_table :
                      MeetsThresholds(pass_table[i], env) => pass_table[i] \in NoticePasses

\* the morning was requested: a morning pass is selected and an evening pass
\* that meets the other clauses is not
C20_Witness ==
    /\ pc \in AfterCompose
    /\ env.time_window = "morning"
    /\ \E i \in DOMAIN pass_table :
          /\ pass_table[i].time_window = "morning"
          /\ pass_table[i] \in CalendarPasses
          /\ pass_table[i] \in NoticePasses
    /\ \E i \in DOMAIN pass_table :
          /\ pass_table[i].time_window = "evening"
          /\ MeetsThresholds(pass_table[i], env)
          /\ pass_table[i] \notin CalendarPasses
          /\ pass_table[i] \notin NoticePasses

----------------------------------------------------------------------------
(* The daily weather summary, checked under Spec *)

\* the pass has a forecast sample at its truncated start hour
HasSample(r) == SamplesAt(weather_table, HourOf(r.start_utc)) # {}

\* that sample
SampleOf(r) ==
    weather_table[CHOOSE i \in SamplesAt(weather_table, HourOf(r.start_utc)) : TRUE]

\* the passes of local date d that the by-date notification selects
SelectedOn(d) ==
    SelectSeq(pass_table,
              LAMBDA r : /\ r.date = d
                         /\ MeetsThresholds(r, env)
                         /\ (env.time_window \in {"morning", "evening"}
                                => r.time_window = env.time_window))

SelectedDates ==
    { pass_table[i].date : i \in { k \in DOMAIN pass_table :
                                     SelectedOn(pass_table[k].date) # <<>> } }

\* the statistics of the samples of a non-empty sequence of passes
SummaryOver(rows) ==
    LET samples == [i \in DOMAIN rows |-> SampleOf(rows[i])]
    IN  [cloud_min |-> Min({ samples[i].totalcloudcover : i \in DOMAIN samples }),
         cloud_max |-> Max({ samples[i].totalcloudcover : i \in DOMAIN samples }),
         cloud_sum |-> Sum([i \in DOMAIN samples |-> samples[i].totalcloudcover]),
         wind_sum |-> Sum([i \in DOMAIN samples |-> samples[i].windspeed]),
         temp_sum |-> Sum([i \in DOMAIN samples |-> samples[i].temperature]),
         n |-> Len(samples),
         pict |-> Max({ samples[i].pictocode : i \in DOMAIN samples })]

\* the group of date d carries the summary over its passes that have a
\* sample, and none when no pass of it has one
SummaryAsClaimed(d) ==
    \E g \in DOMAIN lines :
        /\ lines[g].key = d
        /\ LET with_sample == SelectSeq(SelectedOn(d), HasSample)
           IN  IF with_sample = <<>>
               THEN ~lines[g].has_summary
               ELSE /\ lines[g].has_summary
                    /\ lines[g].summary = <<SummaryOver(with_sample)>>

\* the by-date run has passed the join and the composing of the notification,
\* or has ended
ComposedOrEnded ==
    /\ env.notify_type = "bydate"
    /\ JoinRan
    /\ pc \in AfterCompose \cup {"aborted"}

\* C21: every date group of a by-date notification carries the daily summary
\* (min, max and mean cloud cover, mean wind, mean temperature, highest
\* pictogram code) taken over its passes that have a weather sample and over
\* no other pass, and carries no summary when none of its passes has one.
C21_SummaryOverPassesWithWeather ==
    ComposedOrEnded => \A d \in SelectedDates : SummaryAsClaimed(d)

----------------------------------------------------------------------------
(* Order of the requests of a run, checked under Spec *)

SummaryCalls == SelectSeq(net, LAMBDA q : q.call = "summary")

\* the loop over the satellites has run to its end
FetchLoopDone == pc \in {"window", "weather", "join"} \cup AfterJoin

\* C22: the pass-summary requests of a run are one per satellite of the
\* list, in list order; a request that failed is the last request of the run
\* (no retry, no later satellite); a run that gets past the loop has
\* requested every satellite.
C22_OneSummaryRequestPerSatellite ==
    /\ Len(SummaryCalls) <= Len(norad_ids)
    /\ \A k \in DOMAIN SummaryCalls : SummaryCalls[k].satid = norad_ids[k]
    /\ \A i \in DOMAIN net :
          (net[i].call \in {"tle", "summary"} /\ net[i].answer # "ok") => i = Len(net)
    /\ (pc = "aborted" /\ error.at \in {"tle", "summary", "parse"}) =>
          net[Len(net)].call \in {"tle", "summary"}
    /\ FetchLoopDone => Len(SummaryCalls) = Len(norad_ids)

\* the request for the second satellite failed after the first succeeded:
\* the run has ended with two pass-summary requests
C22_Witness ==
    /\ pc = "aborted"
    /\ error = [exc |-> "HTTPError", at |-> "summary"]
    /\ Len(SummaryCalls) = 2
    /\ SummaryCalls[1].answer = "ok"
    /\ SummaryCalls[2].answer = "http_error"
    /\ net[Len(net)] = SummaryCalls[2]

\* the three calls of the delivery, in the order of the script
ChatEndpoints == <<"files.getUploadURLExternal", "upload", "files.completeUploadExternal">>

ChatCalls == SelectSeq(net, LAMBDA q : q.call \in Range(ChatEndpoints))

\* C23: chat calls are made only with the send switch on, in the order
\* request-upload-URL, upload, confirm-and-share, each one only after the one
\* before it succeeded; an answer whose body is not ok ends the run with a
\* RuntimeError at that call, before any later call; a run with the switch
\* on that ends normally has made all three, a run with it off none.
C23_ChatDeliveryInOrder ==
    /\ ChatCalls # <<>> => env.send_notice
    /\ Len(ChatCalls) <= Len(ChatEndpoints)
    /\ \A k \in DOMAIN ChatCalls :
          /\ ChatCalls[k].call = ChatEndpoints[k]
          /\ k < Len(ChatCalls) => ChatCalls[k].answer = "ok"
          /\ ChatCalls[k].answer = "not_ok" =>
                /\ pc = "aborted"
                /\ error = [exc |-> "RuntimeError", at |-> ChatCalls[k].call]
                /\ net[Len(net)] = ChatCalls[k]
    /\ pc = "done" => Len(ChatCalls) = IF env.send_notice THEN Len(ChatEndpoints) ELSE 0

\* the upload URL was given and the bytes were uploaded, then the confirming
\* call was answered with a body that is not ok: the run has ended there
C23_Witness ==
    /\ pc = "aborted"
    /\ env.send_notice
    /\ Len(ChatCalls) = 3
    /\ ChatCalls[1].answer = "ok"
    /\ ChatCalls[2].answer = "ok"
    /\ ChatCalls[3].answer = "not_ok"
    /\ error = [exc |-> "RuntimeError", at |-> "files.completeUploadExternal"]

\* the run has composed its notification and gone on
PastPreview == {"slack_get_url", "slack_upload", "slack_complete", "done"}

\* C24: a run that has composed its notification has printed it, with the
\* send switch on and with it off, and the printing comes before any call to
\* the chat service; nothing is printed before the notification is composed.
C24_PreviewAlwaysPrinted ==
    /\ pc \in PastPreview => printed
    /\ ChatCalls # <<>> => printed
    /\ printed => pc \in PastPreview \cup {"aborted"}
    /\ (printed /\ pc = "aborted") => ChatCalls # <<>>

\* a run with the send switch off has ended normally: the notification, with
\* a pass in it, was printed and no chat call was made
C24_Witness ==
    /\ pc = "done"
    /\ ~env.send_notice
    /\ printed
    /\ NoticePasses # {}
    /\ ChatCalls = <<>>

----------------------------------------------------------------------------
(* Folding is lossless and ends, checked under SpecFoldLive *)

\* the positions of a string that belong to a CR LF followed by a space
FoldMarks(str) ==
    UNION { {i, i + 1, i + 2} :
              i \in { j \in 1..(Len(str) - 2) :
                        str[j] = CR /\ str[j + 1] = LF /\ str[j + 2] = SP } }

\* the string without every CR LF that a space follows, and without that
\* space
RemoveFolds(str) ==
    LET marks == FoldMarks(str)
        kept == SelectSeq([i \in 1..Len(str) |-> i], LAMBDA i : i \notin marks)
    IN  [k \in DOMAIN kept |-> str[kept[k]]]

\* C25: for every line the function returns, and taking every CRLF followed
\* by one space out of the returned string gives the line back, character by
\* character.
C25_FoldLosslessAndEnds ==
    /\ <>(fold_pc = "done")
    /\ [](fold_pc = "done" => RemoveFolds(fold_ret) = fold_arg)

\* a line of more than two segments, with spaces of its own, was folded and
\* is given back by the unfolding
C25_Witness ==
    /\ fold_pc = "done"
    /\ Len(fold_arg) > 2 * limit
    /\ \E i \in DOMAIN fold_arg : fold_arg[i] = SP
    /\ \E i \in DOMAIN fold_arg : fold_arg[i] # SP
    /\ Len(fold_ret) > Len(fold_arg)
    /\ RemoveFolds(fold_ret) = fold_arg

====
